---- MODULE Spec2Model ----
(***************************************************************************)
(* A model of tgrid's Communicator (src/src/components/Communicator.ts),   *)
(* of the Invoke messages (src/src/components/Invoke.ts) and of the        *)
(* ConnectorBase lifecycle gate (src/unnamed/part_000).                    *)
(*                                                                         *)
(* JavaScript runs the code on one thread: every action below is one       *)
(* synchronous run of a handler, from its entry to its first suspension    *)
(* (an await) or to its end.  What the transport, the remote peer, the     *)
(* subclass and the user of the driver do is the environment: the          *)
(* arguments of the actions, drawn from small sets.                        *)
(***************************************************************************)
EXTENDS Integers, Sequences, FiniteSets, TLC

(***************************************************************************)
(* Bounds of the model.                                                    *)
(***************************************************************************)
\* driver invocations (outbound calls) issued in one behaviour
MaxCalls == 3
\* join() invocations in one behaviour
MaxJoins == 2
\* IFunction messages passed to replyData in one behaviour
MaxInbound == 2
\* attribute accesses in one driver expression
MaxDepth == 2
\* invocations of what driver expressions reach in one behaviour
MaxInvocations == 2

\* The communicators of the process: they share Communicator.SEQUENCE.
Comms == {"c1", "c2"}
\* the communicator the single-communicator specifications run
Local == {"c1"}

Calls == 1..MaxCalls
Joins == 1..MaxJoins

(***************************************************************************)
(* ConnectorBase.State                                                     *)
(***************************************************************************)
NONE == -1
CONNECTING == 0
OPEN == 1
CLOSING == 2
CLOSED == 3
States == {NONE, CONNECTING, OPEN, CLOSING, CLOSED}

\* JavaScript values: null, undefined, plain values and Error objects
Null == [kind |-> "null"]
Undefined == [kind |-> "undefined"]
Error(message) == [kind |-> "Error", message |-> message]
Boolean(b) == [kind |-> "boolean", v |-> b]

\* the values a remote peer puts in an IReturn, and the errors a subclass
\* hands to the destructor
Value(v) == [kind |-> "value", v |-> v]
Values == {Value("v1"), Value("v2")}
Errors == {Error("bye")}
DefaultCloseError == Error("Connection has been closed.")

\* the method names handed to inspectReady
CallMethod == "Communicator._Call_fuction"
JoinMethod == "${this.constructor.name}.join"

VARIABLES
    SEQUENCE,     \* Communicator.SEQUENCE (static: one for the process)
    state_,       \* ConnectorBase.state_ of each communicator
    promises_,    \* Communicator.promises_: uid -> the call whose (resolve, reject) pair it holds
    join_cv_,     \* Communicator.join_cv_: the joins suspended on the condition variable
    calls,        \* the driver invocations made so far, with every use of their continuations
    outbox,       \* the messages handed to sendData, in order
    joins,        \* the join() invocations made so far
    destroyed,    \* whether destructor() has run on the communicator
    provider_,    \* Communicator.provider_
    dispatches,   \* the runs of _Handle_function so far and where each stands
    reads,        \* the members read from provider objects: <<object, name>>
    invoked,      \* the provider functions invoked, in order
    handle        \* the value of the driver expression the user is evaluating

out_vars == <<SEQUENCE, promises_, calls>>
join_vars == <<join_cv_, joins>>
in_vars == <<provider_, dispatches, reads, invoked>>
vars == <<SEQUENCE, state_, promises_, join_cv_, calls, outbox, joins, destroyed,
          provider_, dispatches, reads, invoked, handle>>

(***************************************************************************)
(* ConnectorBase.inspectReady: null in OPEN, else the diagnostic of the    *)
(* state, which carries the method's name.                                 *)
(***************************************************************************)
ReadyError(method, hint) ==
    [kind |-> "Error", method |-> method, message |-> hint]

\* a gate that is also open while the connection is closing
inspectReady_Closing(c, method) ==
    IF state_[c] \in {OPEN, CLOSING} THEN Null
    ELSE IF state_[c] = NONE THEN ReadyError(method, "connect first.")
    ELSE IF state_[c] = CONNECTING
        THEN ReadyError(method, "it's on connecting, wait for a second.")
    ELSE ReadyError(method, "the connection has been closed.")

inspectReady(c, method) ==
    IF state_[c] = OPEN THEN Null
    ELSE IF state_[c] = NONE THEN ReadyError(method, "connect first.")
    ELSE IF state_[c] = CONNECTING
        THEN ReadyError(method, "it's on connecting, wait for a second.")
    ELSE IF state_[c] = CLOSING
        THEN ReadyError(method, "the connection is on closing.")
    ELSE IF state_[c] = CLOSED
        THEN ReadyError(method, "the connection has been closed.")
    ELSE ReadyError(method, "unknown error, but not connected.")

(***************************************************************************)
(* tstl's HashMap, as promises_ uses it: emplace keeps an existing key's   *)
(* value, erase removes one key, clear all of them.                        *)
(***************************************************************************)
Emplace(tbl, uid, k) ==
    IF uid \in DOMAIN tbl THEN tbl
    ELSE [u \in DOMAIN tbl \cup {uid} |-> IF u = uid THEN k ELSE tbl[u]]

Erase_Keep(tbl, uid) == tbl

Erase(tbl, uid) == [u \in DOMAIN tbl \ {uid} |-> tbl[u]]

EmptyTable == <<>>

\* the keys under which the table holds the continuation pair of call k
EntriesOf(tbl, k) == {u \in DOMAIN tbl : tbl[u] = k}

(***************************************************************************)
(* A driver invocation and the uses of its continuation pair.              *)
(*   resolved, rejected: the arguments of every invocation of resolve and  *)
(*   of reject, in order; send: where the call's sendData stands.          *)
(***************************************************************************)
NewCall(c, name, params) ==
    [comm |-> c, listener |-> name, parameters |-> params, uid |-> 0,
     resolved |-> <<>>, rejected |-> <<>>, send |-> "none"]

Resolve(call, value) == [call EXCEPT !.resolved = Append(@, value)]
Reject(call, value) == [call EXCEPT !.rejected = Append(@, value)]

\* ++Communicator.SEQUENCE
NextUid_Stuck(seq) == IF seq = 0 THEN 1 ELSE seq

NextUid(seq) == seq + 1

\* the parameters of an IFunction: params.map(p => ({type: typeof p, value: p}))
TypeOf(p) == p.type
Parameters(params) ==
    [i \in 1..Len(params) |-> [type |-> TypeOf(params[i]), value |-> params[i]]]

(***************************************************************************)
(* Communicator._Call_function: the executor of the promise the driver     *)
(* returns, up to its await of sendData.                                   *)
(***************************************************************************)
\* the invoke message built before the readiness check
Call_function_EagerUid(c, name, params) ==
    /\ Len(calls) < MaxCalls
    /\ LET error == inspectReady(c, CallMethod)
           k == Len(calls) + 1
           call == NewCall(c, name, params)
           uid == NextUid(SEQUENCE)
           invoke == [uid |-> uid, listener |-> name,
                      parameters |-> Parameters(params)]
       IN  /\ SEQUENCE' = uid
           /\ IF error # Null
              THEN /\ calls' = Append(calls, Reject(call, error))
                   /\ UNCHANGED <<promises_, outbox>>
              ELSE /\ promises_' = [promises_ EXCEPT ![c] = Emplace(@, uid, k)]
                   /\ outbox' = [outbox EXCEPT ![c] = Append(@, invoke)]
                   /\ calls' = Append(calls,
                                 [call EXCEPT !.uid = uid, !.send = "pending"])
    /\ UNCHANGED <<state_, join_cv_, joins, destroyed, handle, in_vars>>

\* sendData invoked with the continuation pair not in the table
Call_function_SendFirst(c, name, params) ==
    /\ Len(calls) < MaxCalls
    /\ LET error == inspectReady(c, CallMethod)
           call == NewCall(c, name, params)
       IN  IF error # Null
           THEN /\ calls' = Append(calls, Reject(call, error))
                /\ UNCHANGED <<SEQUENCE, promises_, outbox>>
           ELSE LET uid == NextUid(SEQUENCE)
                    invoke == [uid |-> uid, listener |-> name,
                               parameters |-> Parameters(params)]
                IN  /\ SEQUENCE' = uid
                    /\ UNCHANGED promises_
                    /\ outbox' = [outbox EXCEPT ![c] = Append(@, invoke)]
                    /\ calls' = Append(calls,
                                  [call EXCEPT !.uid = uid, !.send = "pending"])
    /\ UNCHANGED <<state_, join_cv_, joins, destroyed, handle, in_vars>>

Call_function(c, name, params) ==
    /\ Len(calls) < MaxCalls
    /\ LET error == inspectReady(c, CallMethod)
           k == Len(calls) + 1
           call == NewCall(c, name, params)
       IN  IF error # Null
           THEN /\ calls' = Append(calls, Reject(call, error))
                /\ UNCHANGED <<SEQUENCE, promises_, outbox>>
           ELSE LET uid == NextUid(SEQUENCE)
                    invoke == [uid |-> uid, listener |-> name,
                               parameters |-> Parameters(params)]
                IN  /\ SEQUENCE' = uid
                    /\ promises_' = [promises_ EXCEPT ![c] = Emplace(@, uid, k)]
                    /\ outbox' = [outbox EXCEPT ![c] = Append(@, invoke)]
                    /\ calls' = Append(calls,
                                  [call EXCEPT !.uid = uid, !.send = "pending"])
    /\ UNCHANGED <<state_, join_cv_, joins, destroyed, handle, in_vars>>

\* the sendData of an outbound call completes: the executor ends
SendData_done(k) ==
    /\ k \in DOMAIN calls
    /\ calls[k].send = "pending"
    /\ calls' = [calls EXCEPT ![k].send = "done"]
    /\ UNCHANGED <<SEQUENCE, state_, promises_, join_cv_, outbox, joins, destroyed, handle, in_vars>>

\* the sendData of an outbound call fails: the async executor throws, which
\* rejects the executor's own promise and nothing else
SendData_fail(k) ==
    /\ k \in DOMAIN calls
    /\ calls[k].send = "pending"
    /\ calls' = [calls EXCEPT ![k].send = "failed"]
    /\ UNCHANGED <<SEQUENCE, state_, promises_, join_cv_, outbox, joins, destroyed, handle, in_vars>>

(***************************************************************************)
(* The driver: the Proxy of the constructor and the Proxies _Proxy_func    *)
(* makes.  The user evaluates one expression at a time: handle holds the   *)
(* communicator whose driver it started from, the value reached and the    *)
(* names accessed so far.                                                  *)
(***************************************************************************)
S_then == <<"t", "h", "e", "n">>
S_bind == <<"b", "i", "n", "d">>
S_call == <<"c", "a", "l", "l">>
S_apply == <<"a", "p", "p", "l", "y">>

Driver == [kind |-> "driver"]
\* the Proxy around (...params) => this._Call_function(name, ...params)
Proxy_func(name) == [kind |-> "proxy", name |-> name]
\* what bind, call and apply of a proxied function give: a forwarder to func
Meta(method, name) == [kind |-> "meta", method |-> method, name |-> name]
\* func.bind(thisArg, ...args)
Bound(name, args) == [kind |-> "bound", name |-> name, args |-> args]

\* the path with its names the other way round
Extend_Reversed(name, newName) == newName \o <<".">> \o name

\* `${name}.${newName}`
Extend(name, newName) == name \o <<".">> \o newName

\* the get traps of the two Proxies
Get(value, name) ==
    IF value.kind = "driver"
    THEN IF name = S_then THEN Null ELSE Proxy_func(name)
    ELSE IF name = S_bind THEN Meta("bind", value.name)
    ELSE IF name = S_call THEN Meta("call", value.name)
    ELSE IF name = S_apply THEN Meta("apply", value.name)
    ELSE Proxy_func(Extend(value.name, name))

NoHandle == [comm |-> "none", value |-> Undefined, chain |-> <<>>]

\* communicator.getDriver()
GetDriver(c) ==
    /\ handle' = [comm |-> c, value |-> Driver, chain |-> <<>>]
    /\ UNCHANGED <<out_vars, join_vars, in_vars, state_, outbox, destroyed>>

\* one attribute access on the value reached
Access(name, depth) ==
    /\ handle.value.kind \in {"driver", "proxy"}
    /\ Len(handle.chain) < depth
    /\ handle' = [handle EXCEPT !.value = Get(@, name), !.chain = Append(@, name)]
    /\ UNCHANGED <<out_vars, join_vars, in_vars, state_, outbox, destroyed>>

\* the value reached is invoked with params
Invoke(params) ==
    /\ handle.value.kind \in {"proxy", "bound"}
    /\ IF handle.value.kind = "proxy"
       THEN Call_function(handle.comm, handle.value.name, params)
       ELSE Call_function(handle.comm, handle.value.name, handle.value.args \o params)

\* the forwarder reached is invoked with thisArg and args: call and apply
\* invoke func, bind gives the bound function
InvokeMeta(thisArg, args) ==
    /\ handle.value.kind = "meta"
    /\ IF handle.value.method = "bind"
       THEN /\ handle' = [handle EXCEPT !.value = Bound(handle.value.name, args)]
            /\ UNCHANGED <<out_vars, join_vars, in_vars, state_, outbox, destroyed>>
       ELSE Call_function(handle.comm, handle.value.name, args)

(***************************************************************************)
(* Communicator._Handle_return                                             *)
(***************************************************************************)
\* invoke[name], undefined when the message has no such field
Field(invoke, name) == IF name \in DOMAIN invoke THEN invoke[name] ELSE Undefined

\* whether invoke.success is truthy
Success(invoke) == "success" \in DOMAIN invoke /\ invoke.success

\* the continuations taken the other way round
Settle_Swapped(call, invoke) ==
    IF Success(invoke)
    THEN Reject(call, Field(invoke, "value"))
    ELSE Resolve(call, Field(invoke, "value"))

\* invoke.success ? it.second.first : it.second.second, applied to invoke.value
Settle(call, invoke) ==
    IF Success(invoke)
    THEN Resolve(call, Field(invoke, "value"))
    ELSE Reject(call, Field(invoke, "value"))

\* a lookup that falls back on the newest entry when the uid is not found
Handle_return_Newest(c, invoke) ==
    IF promises_[c] = EmptyTable
    THEN UNCHANGED vars
    ELSE LET uid == IF invoke.uid \in DOMAIN promises_[c] THEN invoke.uid
                    ELSE CHOOSE u \in DOMAIN promises_[c] :
                             \A v \in DOMAIN promises_[c] : v <= u
             k == promises_[c][uid]
         IN  /\ promises_' = [promises_ EXCEPT ![c] = Erase(@, uid)]
             /\ calls' = [calls EXCEPT ![k] = Settle(@, invoke)]
             /\ UNCHANGED <<SEQUENCE, state_, join_cv_, outbox, joins, destroyed, handle, in_vars>>

Handle_return(c, invoke) ==
    IF invoke.uid \notin DOMAIN promises_[c]
    THEN UNCHANGED vars
    ELSE LET k == promises_[c][invoke.uid]
         IN  /\ promises_' = [promises_ EXCEPT ![c] = Erase(@, invoke.uid)]
             /\ calls' = [calls EXCEPT ![k] = Settle(@, invoke)]
             /\ UNCHANGED <<SEQUENCE, state_, join_cv_, outbox, joins, destroyed, handle, in_vars>>

(***************************************************************************)
(* Communicator.destructor                                                 *)
(***************************************************************************)
RejectError(error) == IF error # Undefined THEN error ELSE DefaultCloseError

\* for (const entry of this.promises_) entry.second.second(rejectError)
RejectAll_Skip(tbl, cs, rejectError) == cs

RECURSIVE RejectN(_, _, _)
RejectN(call, n, rejectError) ==
    IF n = 0 THEN call ELSE RejectN(Reject(call, rejectError), n - 1, rejectError)

RejectAll(tbl, cs, rejectError) ==
    [k \in DOMAIN cs |-> RejectN(cs[k], Cardinality(EntriesOf(tbl, k)), rejectError)]

\* this.promises_.clear()
Clear_Keep(tbl) == tbl

Clear(tbl) == EmptyTable

\* ConditionVariable.notify_all: every suspended join is resumed, wait() with
\* no value, wait_for() and wait_until() with true
Notify(join) ==
    [join EXCEPT !.status = "resolved",
                 !.result = IF join.form = "void" THEN Undefined ELSE Boolean(TRUE)]

Notify_all_One(c, js) ==
    IF join_cv_[c] = {} THEN js
    ELSE LET first == CHOOSE j \in join_cv_[c] : \A i \in join_cv_[c] : j <= i
         IN  [j \in DOMAIN js |-> IF j = first THEN Notify(js[j]) ELSE js[j]]

Notify_all(c, js) ==
    [j \in DOMAIN js |-> IF j \in join_cv_[c] THEN Notify(js[j]) ELSE js[j]]

Destructor(c, error) ==
    /\ calls' = RejectAll(promises_[c], calls, RejectError(error))
    /\ promises_' = [promises_ EXCEPT ![c] = Clear(@)]
    /\ joins' = Notify_all(c, joins)
    /\ join_cv_' = [join_cv_ EXCEPT ![c] = {}]
    /\ destroyed' = [destroyed EXCEPT ![c] = TRUE]
    /\ UNCHANGED <<SEQUENCE, state_, outbox, in_vars, handle>>

(***************************************************************************)
(* The subclass assigns state_ (it is protected): any transition.          *)
(***************************************************************************)
SetState(c, s) ==
    /\ s # state_[c]
    /\ state_' = [state_ EXCEPT ![c] = s]
    /\ UNCHANGED <<SEQUENCE, promises_, join_cv_, calls, outbox, joins, destroyed, handle, in_vars>>

(***************************************************************************)
(* Communicator.join and the waits of tstl's ConditionVariable.            *)
(*   form: "void" for join(), "ms" for join(ms), "date" for join(at).      *)
(***************************************************************************)
JoinForms == {"void", "ms", "date"}

Wait(cv, j) == cv \cup {j}

\* only join() with no argument inspects the readiness
Join_VoidChecked(c, form) ==
    /\ Len(joins) < MaxJoins
    /\ LET error == IF form = "void" THEN inspectReady(c, JoinMethod) ELSE Null
           j == Len(joins) + 1
       IN  IF error # Null
           THEN /\ joins' = Append(joins, [comm |-> c, form |-> form,
                                           status |-> "failed", result |-> error])
                /\ UNCHANGED join_cv_
           ELSE /\ joins' = Append(joins, [comm |-> c, form |-> form,
                                           status |-> "waiting", result |-> Undefined])
                /\ join_cv_' = [join_cv_ EXCEPT ![c] = Wait(@, j)]
    /\ UNCHANGED <<out_vars, state_, outbox, destroyed, handle, in_vars>>

Join(c, form) ==
    /\ Len(joins) < MaxJoins
    /\ LET error == inspectReady(c, JoinMethod)
           j == Len(joins) + 1
       IN  IF error # Null
           THEN /\ joins' = Append(joins, [comm |-> c, form |-> form,
                                           status |-> "failed", result |-> error])
                /\ UNCHANGED join_cv_
           ELSE /\ joins' = Append(joins, [comm |-> c, form |-> form,
                                           status |-> "waiting", result |-> Undefined])
                /\ join_cv_' = [join_cv_ EXCEPT ![c] = Wait(@, j)]
    /\ UNCHANGED <<out_vars, state_, outbox, destroyed, handle, in_vars>>

\* wait_for / wait_until: the timer of a timed wait expires before notify_all
Join_timeout(j) ==
    /\ j \in DOMAIN joins
    /\ j \in join_cv_[joins[j].comm]
    /\ joins[j].form # "void"
    /\ join_cv_' = [join_cv_ EXCEPT ![joins[j].comm] = @ \ {j}]
    /\ joins' = [joins EXCEPT ![j].status = "resolved", ![j].result = Boolean(FALSE)]
    /\ UNCHANGED <<out_vars, state_, outbox, destroyed, handle, in_vars>>

(***************************************************************************)
(* Strings, as sequences of characters: the listener of an IFunction is    *)
(* split at its dots and its segments are inspected character by character.*)
(***************************************************************************)
RECURSIVE SplitFrom(_, _, _)
SplitFrom(str, i, segment) ==
    IF i > Len(str) THEN <<segment>>
    ELSE IF str[i] = "." THEN <<segment>> \o SplitFrom(str, i + 1, <<>>)
    ELSE SplitFrom(str, i + 1, Append(segment, str[i]))

\* listener.split(".")
Split(str) == SplitFrom(str, 1, <<>>)

RECURSIVE Joined(_)
\* names.join(".")
Joined(names) ==
    IF Len(names) = 0 THEN <<>>
    ELSE IF Len(names) = 1 THEN names[1]
    ELSE names[1] \o <<".">> \o Joined(Tail(names))

S_empty == <<>>
S_f == <<"f">>
S_a == <<"a">>
S_x == <<"x">>
S_secret == <<"_", "s">>
S_hidden == <<"s", "_">>
S_constructor == <<"c", "o", "n", "s", "t", "r", "u", "c", "t", "o", "r">>
S_prototype == <<"p", "r", "o", "t", "o", "t", "y", "p", "e">>
S_toString == <<"t", "o", "S", "t", "r", "i", "n", "g">>

(***************************************************************************)
(* The provider: an object with a function f, a private function _s, a     *)
(* function s_ and an object a that has the same three; and what           *)
(* JavaScript gives every object and function (constructor, toString,      *)
(* prototype).                                                             *)
(***************************************************************************)
Object(id) == [kind |-> "object", id |-> id]
Function(id) == [kind |-> "function", id |-> id]

\* an object or function is named by the path that leads to it
ProviderObject == Object(<<>>)
ProviderA == Object(<<S_a>>)
FunctionToString == Function(<< <<"Function.prototype.toString">> >>)
Providers == {Undefined, Null, ProviderObject}

\* thisArg[name], for an object or a function thisArg
Member(thisArg, name) ==
    IF thisArg \in {ProviderObject, ProviderA} THEN
        IF name \in {S_f, S_secret, S_hidden} THEN Function(Append(thisArg.id, name))
        ELSE IF name = S_a /\ thisArg = ProviderObject THEN ProviderA
        ELSE IF name = S_constructor THEN Function(<< <<"Object">> >>)
        ELSE IF name = S_toString THEN Function(<< <<"Object.prototype.toString">> >>)
        ELSE Undefined
    ELSE IF thisArg.kind = "function" THEN
        IF name = S_constructor THEN Function(<< <<"Function">> >>)
        ELSE IF name = S_toString THEN FunctionToString
        ELSE IF name = S_prototype THEN Object(Append(thisArg.id, name))
        ELSE Undefined
    ELSE Undefined

\* the access rules of _Handle_function, in its order; Null when none applies
SecurityError(name, func) ==
    IF Len(name) > 0 /\ name[1] = "_"
        THEN Error("RFC does not allow access to a member starting with the underscore")
    ELSE IF Len(name) > 0 /\ name[Len(name)] = "_"
        THEN Error("RFC does not allow access to a member ending with the underscore")
    ELSE IF name = S_toString /\ func = FunctionToString
        THEN Error("RFC on Function.toString() is not allowed")
    ELSE IF name = S_constructor \/ name = S_prototype
        THEN Error("RFC does not allow access to constructor or prototype")
    ELSE Null

\* for (const name of routes): thisArg = func; func = thisArg[name]; the checks.
\* The result: whether it threw and what, else func and thisArg; and the
\* members it read on the way.
RECURSIVE Walk(_, _, _, _, _)
Walk(func, thisArg, routes, i, rd) ==
    IF i > Len(routes)
    THEN [threw |-> FALSE, error |-> Null, func |-> func, thisArg |-> thisArg, reads |-> rd]
    ELSE LET name == routes[i]
         IN  IF func.kind \in {"undefined", "null"}
             THEN [threw |-> TRUE, error |-> Error("TypeError: cannot read properties"),
                   func |-> func, thisArg |-> func, reads |-> rd]
             ELSE LET next == Member(func, name)
                      rd2 == rd \cup {<<func, name>>}
                      error == SecurityError(name, next)
                  IN  IF error # Null
                      THEN [threw |-> TRUE, error |-> error, func |-> next,
                            thisArg |-> func, reads |-> rd2]
                      ELSE Walk(next, func, routes, i + 1, rd2)

\* the try block of _Handle_function up to the call of the function
Find_function(provider, listener) ==
    IF provider = Undefined
    THEN [threw |-> TRUE, error |-> Error("the provider is not specified yet."),
          func |-> Undefined, thisArg |-> Undefined, reads |-> {}]
    ELSE IF provider = Null
    THEN [threw |-> TRUE, error |-> Error("the provider would not be."),
          func |-> Undefined, thisArg |-> Undefined, reads |-> {}]
    ELSE LET w == Walk(provider, Undefined, Split(listener), 1, {})
         IN  IF w.threw THEN w
             ELSE IF w.func.kind # "function"   \* func.bind(thisArg)
             THEN [w EXCEPT !.threw = TRUE,
                            !.error = Error("TypeError: func.bind is not a function")]
             ELSE w

\* serializeError: a plain record of the error's name and message
SerializeError(value) ==
    [kind |-> "record", name |-> "Error", message |-> value.message]

\* the IReturn _Send_return hands to sendData
Return(uid, success, value) ==
    [uid |-> uid, success |-> success,
     value |-> IF success = FALSE /\ value.kind = "Error"
               THEN SerializeError(value) ELSE value]

(***************************************************************************)
(* Communicator._Handle_function, step by step:                            *)
(*   "running"   the provider function was called and is awaited;          *)
(*   "returning" sendData of the success=true IReturn is awaited (inside   *)
(*               the try block);                                           *)
(*   "throwing"  sendData of the success=false IReturn is awaited (inside  *)
(*               the catch block);                                         *)
(*   "done"      _Handle_function has returned;                            *)
(*   "rejected"  _Handle_function has rejected.                            *)
(* Of each run the model keeps what the try block ended with (outcome),    *)
(* the IReturns it handed to sendData (replies, and their number sends)    *)
(* and the promise replyData is left with (chained).                       *)
(***************************************************************************)
\* the promise of the async function _Handle_function
PromiseOf(pc) ==
    IF pc = "done" THEN "fulfilled"
    ELSE IF pc = "rejected" THEN "rejected"
    ELSE "pending"

Catch_None(promise) == promise

\* promise.catch(() => {}): fulfilled when the promise rejects
Catch(promise) == IF promise = "rejected" THEN "fulfilled" ELSE promise

\* the run of _Handle_function moves to pc
Goto(dispatch, pc) ==
    [dispatch EXCEPT !.pc = pc, !.chained = Catch(PromiseOf(pc))]

\* the run of _Handle_function hands ret to sendData and awaits it at pc
Send(dispatch, pc, ret) ==
    [Goto(dispatch, pc) EXCEPT !.sends = @ + 1, !.replies = Append(@, ret)]

Returned(ret) == [threw |-> FALSE, value |-> ret]
Threw(exp) == [threw |-> TRUE, value |-> exp]

\* the invocation put before those made so far
Call_Before(inv, d, found) ==
    <<[dispatch |-> d, func |-> found.func, thisArg |-> found.thisArg]>> \o inv

\* func(...parameters), func being bound to thisArg: the provider function
\* is invoked, in the synchronous run of replyData
Call(inv, d, found) ==
    Append(inv, [dispatch |-> d, func |-> found.func, thisArg |-> found.thisArg])

Handle_function(c, invoke) ==
    /\ Len(dispatches) < MaxInbound
    /\ LET d == Len(dispatches) + 1
           found == Find_function(provider_[c], invoke.listener)
           dispatch == [comm |-> c, uid |-> invoke.uid, listener |-> invoke.listener,
                        pc |-> "running", sends |-> 0, replies |-> <<>>,
                        outcome |-> Null, chained |-> Catch(PromiseOf("running"))]
       IN  /\ reads' = reads \cup found.reads
           /\ IF found.threw
              THEN LET ret == Return(invoke.uid, FALSE, found.error)
                   IN  /\ dispatches' = Append(dispatches,
                              Send([dispatch EXCEPT !.outcome = Threw(found.error)],
                                   "throwing", ret))
                       /\ outbox' = [outbox EXCEPT ![c] = Append(@, ret)]
                       /\ UNCHANGED invoked
              ELSE /\ dispatches' = Append(dispatches, dispatch)
                   /\ invoked' = Call(invoked, d, found)
                   /\ UNCHANGED outbox
    /\ UNCHANGED <<out_vars, join_vars, state_, destroyed, handle, provider_>>

\* the awaited provider function returns ret: _Send_return(uid, true, ret)
Provider_returns(d, ret) ==
    /\ d \in DOMAIN dispatches
    /\ dispatches[d].pc = "running"
    /\ LET msg == Return(dispatches[d].uid, TRUE, ret)
       IN  /\ dispatches' = [dispatches EXCEPT ![d] =
                  Send([@ EXCEPT !.outcome = Returned(ret)], "returning", msg)]
           /\ outbox' = [outbox EXCEPT ![dispatches[d].comm] = Append(@, msg)]
    /\ UNCHANGED <<out_vars, join_vars, state_, destroyed, handle, provider_, reads, invoked>>

\* the awaited provider function throws exp: catch, _Send_return(uid, false, exp)
Provider_throws(d, exp) ==
    /\ d \in DOMAIN dispatches
    /\ dispatches[d].pc = "running"
    /\ LET msg == Return(dispatches[d].uid, FALSE, exp)
       IN  /\ dispatches' = [dispatches EXCEPT ![d] =
                  Send([@ EXCEPT !.outcome = Threw(exp)], "throwing", msg)]
           /\ outbox' = [outbox EXCEPT ![dispatches[d].comm] = Append(@, msg)]
    /\ UNCHANGED <<out_vars, join_vars, state_, destroyed, handle, provider_, reads, invoked>>

\* the sendData of an IReturn completes
Reply_sent(d) ==
    /\ d \in DOMAIN dispatches
    /\ dispatches[d].pc \in {"returning", "throwing"}
    /\ dispatches' = [dispatches EXCEPT ![d] = Goto(@, "done")]
    /\ UNCHANGED <<out_vars, join_vars, state_, destroyed, handle, outbox, provider_, reads, invoked>>

\* the sendData of an IReturn fails with exp: inside the try block the catch
\* block runs and sends a success=false IReturn; inside the catch block
\* _Handle_function rejects
Reply_fails(d, exp) ==
    /\ d \in DOMAIN dispatches
    /\ dispatches[d].pc \in {"returning", "throwing"}
    /\ IF dispatches[d].pc = "returning"
       THEN LET msg == Return(dispatches[d].uid, FALSE, exp)
            IN  /\ dispatches' = [dispatches EXCEPT ![d] = Send(@, "throwing", msg)]
                /\ outbox' = [outbox EXCEPT ![dispatches[d].comm] = Append(@, msg)]
       ELSE /\ dispatches' = [dispatches EXCEPT ![d] = Goto(@, "rejected")]
            /\ UNCHANGED outbox
    /\ UNCHANGED <<out_vars, join_vars, state_, destroyed, handle, provider_, reads, invoked>>

(***************************************************************************)
(* Communicator.replyData: a message with a truthy listener is an          *)
(* IFunction, any other an IReturn.                                        *)
(***************************************************************************)
ReplyData(c, invoke) ==
    IF "listener" \in DOMAIN invoke /\ invoke.listener # <<>>
    THEN Handle_function(c, invoke)
    ELSE Handle_return(c, invoke)

\* Communicator.setProvider
SetProvider(c, obj) ==
    /\ obj # provider_[c]
    /\ provider_' = [provider_ EXCEPT ![c] = obj]
    /\ UNCHANGED <<out_vars, join_vars, state_, destroyed, handle, outbox, dispatches, reads, invoked>>

(***************************************************************************)
(* Init: the communicators as their constructors leave them.               *)
(***************************************************************************)
Init ==
    /\ SEQUENCE = 0
    /\ state_ = [c \in Comms |-> NONE]
    /\ promises_ = [c \in Comms |-> <<>>]
    /\ join_cv_ = [c \in Comms |-> {}]
    /\ calls = <<>>
    /\ outbox = [c \in Comms |-> <<>>]
    /\ joins = <<>>
    /\ destroyed = [c \in Comms |-> FALSE]
    /\ provider_ = [c \in Comms |-> ProviderObject]
    /\ dispatches = <<>>
    /\ reads = {}
    /\ invoked = <<>>
    /\ handle = NoHandle

(***************************************************************************)
(* The environment: the user of the driver and of join, the transport      *)
(* delivering messages (an IReturn of any uid, even one never issued, any  *)
(* number of times) and terminating, the sendData of the subclass, the     *)
(* provider's functions.                                                   *)
(***************************************************************************)
OutListeners == {S_f}
OutArguments == {<<>>}
Uids == 0..MaxCalls
IReturns(values) == [uid : Uids, success : BOOLEAN, value : values]
OneValue == {Value("v1")}
DestructorArguments == {Undefined} \cup Errors

InUids == {1, 2}
\* the listeners of the dispatch specification: f, _s, x
FewListeners == {S_f, S_secret, S_x}
InListeners ==
    { S_f,                                  \* f
      Joined(<<S_a, S_f>>),                 \* a.f
      S_secret,                             \* _s
      S_hidden,                             \* s_
      Joined(<<S_a, S_secret>>),            \* a._s
      Joined(<<S_secret, S_f>>),            \* _s.f
      S_constructor,                        \* constructor
      Joined(<<S_f, S_prototype>>),         \* f.prototype
      Joined(<<S_f, S_toString>>),          \* f.toString
      S_toString,                           \* toString
      S_x,                                  \* x: no such member
      Joined(<<S_x, S_secret>>) }           \* x._s
IFunctions(listeners) == [uid : InUids, listener : listeners, parameters : {<<>>}]
Thrown == {Error("nope"), Value("thrown")}
SendFailures == {Error("send failed")}

DriverCall(cs) == \E c \in cs, name \in OutListeners, params \in OutArguments :
                      Call_function(c, name, params)
ReplyReturn(cs, values) ==
    \E c \in cs, invoke \in IReturns(values) : ReplyData(c, invoke)
SendDone == \E k \in Calls : SendData_done(k)
SendFail == \E k \in Calls : SendData_fail(k)
Destroy(cs) == \E c \in cs, error \in DestructorArguments : Destructor(c, error)
Transition(cs, ss) == \E c \in cs, s \in ss : SetState(c, s)

\* the user of the driver: the names accessed and the arguments passed
Names == {S_a, S_then, S_call, S_bind}
X1 == [kind |-> "value", type |-> "number", v |-> 1]
X2 == [kind |-> "value", type |-> "string", v |-> "s"]
ThisArg == Undefined

DriverOf(cs) == \E c \in cs : (handle.comm # c \/ handle.value # Driver) /\ GetDriver(c)
DriverAccess == \E name \in Names : Access(name, MaxDepth)
\* the user invokes while the communicator is ready
Ready == /\ handle.comm \in Comms
         /\ inspectReady(handle.comm, CallMethod) = Null
         /\ Len(calls) < MaxInvocations
DriverInvoke ==
    /\ Ready
    /\ \/ handle.value.kind = "proxy" /\ Invoke(<<X1, X2>>)
       \/ handle.value.kind = "bound" /\ Invoke(<<X2>>)
DriverMeta ==
    /\ handle.value.kind = "meta"
    /\ \/ handle.value.method = "bind" /\ InvokeMeta(ThisArg, <<X1>>)
       \/ handle.value.method # "bind" /\ Ready /\ InvokeMeta(ThisArg, <<X1, X2>>)

JoinCall(cs) == \E c \in cs, form \in JoinForms : Join(c, form)
JoinOf(cs, forms) == \E c \in cs, form \in forms : Join(c, form)
JoinTimeout == \E j \in Joins : Join_timeout(j)

ReplyFunction(cs, listeners) ==
    \E c \in cs, invoke \in IFunctions(listeners) : ReplyData(c, invoke)
\* a peer that numbers its calls as _Call_function does: 1, 2, ...
FreshFunction(cs, listeners) ==
    \E c \in cs, listener \in listeners :
        ReplyData(c, [uid |-> Len(dispatches) + 1, listener |-> listener,
                      parameters |-> <<>>])
ProviderReturns == \E d \in 1..MaxInbound, ret \in Values : Provider_returns(d, ret)
ProviderThrows == \E d \in 1..MaxInbound, exp \in Thrown : Provider_throws(d, exp)
ReplySent == \E d \in 1..MaxInbound : Reply_sent(d)
ReplyFails == \E d \in 1..MaxInbound, exp \in SendFailures : Reply_fails(d, exp)
ProviderChange(cs) == \E c \in cs, obj \in Providers : SetProvider(c, obj)

\* The whole system: every operation on every communicator.  The
\* specifications after it are its restrictions to one side of a communicator
\* (outbound calls, joins, inbound dispatch), which share no state but
\* state_, destroyed and outbox.
Next ==
    \/ DriverOf(Comms)
    \/ DriverAccess
    \/ DriverInvoke
    \/ DriverMeta
    \/ DriverCall(Comms)
    \/ ReplyReturn(Comms, Values)
    \/ SendDone
    \/ SendFail
    \/ Destroy(Comms)
    \/ Transition(Comms, States)
    \/ JoinCall(Comms)
    \/ JoinTimeout
    \/ ReplyFunction(Comms, InListeners)
    \/ ProviderReturns
    \/ ProviderThrows
    \/ ReplySent
    \/ ReplyFails
    \/ ProviderChange(Comms)

Spec == Init /\ [][Next]_vars

\* One communicator in every state of the lifecycle: every interleaving of
\* driver calls, replies, destructor runs and state changes.
NextOut ==
    \/ DriverCall(Local)
    \/ ReplyReturn(Local, OneValue)
    \/ Destroy(Local)
    \/ Transition(Local, States)

SpecOut == Init /\ [][NextOut]_vars

\* The transport of a communicator that holds pending calls eventually
\* terminates, and the subclass then runs the destructor (the contract of a
\* transport: "A destroy function must be called when the network
\* communication has been closed").
FairSpecOut == SpecOut /\ WF_vars(Destroy(Local))

\* The same, with a subclass that leaves state_ as it is once the destructor
\* has run.
Transition_Live(cs, ss) == \E c \in cs, s \in ss : ~destroyed[c] /\ SetState(c, s)

NextLeft ==
    \/ DriverCall(Local)
    \/ ReplyReturn(Local, OneValue)
    \/ Destroy(Local)
    \/ Transition_Live(Local, States)

SpecLeft == Init /\ [][NextLeft]_vars

\* One communicator, open or closed: the same with the outcomes of the
\* sendData of each call.
NextSend ==
    \/ DriverCall(Local)
    \/ ReplyReturn(Local, Values)
    \/ SendDone
    \/ SendFail
    \/ Destroy(Local)
    \/ Transition(Local, {OPEN, CLOSED})

SpecSend == Init /\ [][NextSend]_vars

\* One communicator, open or closed: driver calls, replies of either flag
\* and any value in any order, destructor runs.
NextOrder ==
    \/ DriverCall(Local)
    \/ ReplyReturn(Local, Values)
    \/ Destroy(Local)
    \/ Transition(Local, {OPEN, CLOSED})

SpecOrder == Init /\ [][NextOrder]_vars

\* Two communicators of one process, open or closed: the shared SEQUENCE.
NextSeq ==
    \/ DriverCall(Comms)
    \/ ReplyReturn(Comms, OneValue)
    \/ Destroy(Comms)
    \/ Transition(Comms, {OPEN, CLOSED})

SpecSeq == Init /\ [][NextSeq]_vars

\* One communicator: joins, their timeouts, destructor runs and state changes.
NextJoin ==
    \/ JoinCall(Local)
    \/ JoinTimeout
    \/ Destroy(Local)
    \/ Transition(Local, States)

SpecJoin == Init /\ [][NextJoin]_vars

\* One communicator, which opens, and the user of its driver: attribute
\* accesses, invocations, and bind and call of the functions reached.
NextDriver ==
    \/ DriverOf(Local)
    \/ DriverAccess
    \/ DriverInvoke
    \/ DriverMeta
    \/ Transition(Local, {OPEN})

SpecDriver == Init /\ [][NextDriver]_vars

\* One communicator, which opens, with calls and joins outstanding: replies
\* of any uid, any number of times, before and after destructor runs.
NextDrop ==
    \/ DriverCall(Local)
    \/ ReplyReturn(Local, OneValue)
    \/ JoinOf(Local, {"void"})
    \/ Destroy(Local)
    \/ Transition(Local, {OPEN})

SpecDrop == Init /\ [][NextDrop]_vars

\* One connector in every state of the lifecycle: driver calls and joins.
NextGate ==
    \/ DriverCall(Local)
    \/ JoinOf(Local, {"void"})
    \/ Transition(Local, States)

SpecGate == Init /\ [][NextGate]_vars

\* One communicator, open or closed, that both calls and is called: driver
\* calls, inbound IReturn messages and inbound IFunction messages, whose
\* listener may be the empty string.
NextBoth ==
    \/ DriverCall(Local)
    \/ ReplyReturn(Local, OneValue)
    \/ ReplyFunction(Local, {S_empty, S_f})
    \/ Transition(Local, {OPEN, CLOSED})

SpecBoth == Init /\ [][NextBoth]_vars

\* One communicator: inbound IFunction messages, the provider's functions,
\* the sendData of the replies and destructor runs.
NextIn ==
    \/ ReplyFunction(Local, FewListeners)
    \/ ProviderReturns
    \/ ProviderThrows
    \/ ReplySent
    \/ ReplyFails
    \/ Destroy(Local)

SpecIn == Init /\ [][NextIn]_vars

\* One communicator: inbound IFunction messages of every kind of listener,
\* up to the call of the provider function or the failure reply.
NextFind ==
    \/ ReplyFunction(Local, InListeners)
    \/ ProviderChange(Local)

SpecFind == Init /\ [][NextFind]_vars

\* One communicator: inbound IFunction messages against a provider that is
\* reinstalled at any time (an object, null, undefined), the provider's
\* functions and the sendData of the replies.
NextReply ==
    \/ FreshFunction(Local, FewListeners)
    \/ ProviderChange(Local)
    \/ ProviderReturns
    \/ ProviderThrows
    \/ ReplySent
    \/ ReplyFails

SpecReply == Init /\ [][NextReply]_vars

(***************************************************************************)
(* The claims.                                                             *)
(***************************************************************************)
\* how often the continuations of call k have been invoked
Settlements(k) == Len(calls[k].resolved) + Len(calls[k].rejected)
\* call k was accepted: it passed inspectReady and got a uid
Accepted(k) == calls[k].uid # 0
\* call k has its continuation pair in the table of its communicator
Pending(k) == EntriesOf(promises_[calls[k].comm], k) # {}
\* a step in which the driver is invoked on communicator c
Invocation(c) == Len(calls') = Len(calls) + 1 /\ calls'[Len(calls')].comm = c

\* C1: under every interleaving of IReturn messages (duplicates included),
\* destructor runs (repeated ones included), not-ready failures and sendData
\* outcomes, the continuations of a call are invoked at most once in total.
C1_SettledAtMostOnce ==
    \A k \in DOMAIN calls : Settlements(k) <= 1

\* C1's case: one call resolved by its IReturn, one rejected by the
\* destructor and one rejected for not being ready, after a failed sendData.
C1_Witness ==
    \E k1, k2, k3 \in DOMAIN calls :
        /\ Len(calls[k1].resolved) = 1 /\ calls[k1].send = "failed"
        /\ calls[k2].rejected = <<DefaultCloseError>>
        /\ ~Accepted(k3) /\ Len(calls[k3].rejected) = 1
        /\ destroyed[calls[k1].comm]

C3_UidsUnique ==
    /\ \A c1, c2 \in Comms :
          c1 # c2 => DOMAIN promises_[c1] \cap DOMAIN promises_[c2] = {}
    /\ \A k1, k2 \in DOMAIN calls :
          (k1 # k2 /\ Accepted(k1) /\ Accepted(k2)
             /\ Settlements(k1) = 0 /\ Settlements(k2) = 0)
          => calls[k1].uid # calls[k2].uid
    /\ \A k \in DOMAIN calls :
          (Accepted(k) /\ Settlements(k) = 0)
          => EntriesOf(promises_[calls[k].comm], k) = {calls[k].uid}
    /\ \A c \in Comms : \A u \in DOMAIN promises_[c] : 1 <= u /\ u <= SEQUENCE

\* C3's case: calls outstanding at the same time on both communicators and
\* two on the same one.
C3_Witness ==
    \E k1, k2, k3 \in DOMAIN calls :
        /\ k1 # k2 /\ calls[k1].comm = calls[k2].comm /\ calls[k1].comm # calls[k3].comm
        /\ Pending(k1) /\ Pending(k2) /\ Pending(k3)

\* C4: a run of the destructor invokes the reject of every call in the table,
\* once, with the error it was given or else the default error, invokes no
\* resolve, leaves every other call alone and leaves the table empty.
C4_DestructorRejectsAll ==
    [][\A c \in Comms, error \in DestructorArguments :
          Destructor(c, error) =>
            /\ promises_'[c] = <<>>
            /\ \A k \in DOMAIN calls :
                  IF \E u \in DOMAIN promises_[c] : promises_[c][u] = k
                  THEN /\ calls'[k].rejected =
                            Append(calls[k].rejected,
                                   IF error \in Errors THEN error
                                   ELSE Error("Connection has been closed."))
                       /\ calls'[k].resolved = calls[k].resolved
                  ELSE calls'[k] = calls[k]]_vars

\* C4's case: the destructor has rejected one call with the error it was given
\* and, in another run, one with the default error.
C4_Witness ==
    \E k1, k2 \in DOMAIN calls :
        /\ calls[k1].rejected = <<Error("bye")>>
        /\ calls[k2].rejected = <<Error("Connection has been closed.")>>
        /\ promises_[calls[k1].comm] = <<>>

\* C5: once the destructor has run on a communicator, whatever state_ it was
\* left at, a driver invocation on it allocates no uid, inserts nothing into
\* the table, calls no sendData and fails.
C5_NoCallAfterDestructor ==
    [][\A c \in Comms :
          (destroyed[c] /\ Invocation(c)) =>
            /\ SEQUENCE' = SEQUENCE
            /\ promises_' = promises_
            /\ outbox' = outbox
            /\ Len(calls'[Len(calls')].rejected) = 1]_vars

\* C6: once the destructor has run on a communicator, an IFunction passed to
\* replyData invokes no provider function, and a dispatch that was in flight calls no
\* sendData any more.
C6_NoDispatchAfterDestructor ==
    [][\A c \in Comms :
          destroyed[c] =>
            /\ \A i \in DOMAIN invoked' \ DOMAIN invoked :
                  dispatches'[invoked'[i].dispatch].comm # c
            /\ \A d \in DOMAIN dispatches :
                  dispatches[d].comm = c => dispatches'[d].sends = dispatches[d].sends]_vars

\* a join is suspended: join() has not returned or thrown yet
Suspended(j) == joins[j].status = "waiting"

\* C7: a run of the destructor resolves every join suspended on the
\* communicator: join() without a value, join(ms) and join(at) with true.
C7_DestructorReleasesJoins ==
    [][\A c \in Comms, error \in DestructorArguments :
          Destructor(c, error) =>
            \A j \in DOMAIN joins :
                (joins[j].comm = c /\ Suspended(j)) =>
                    /\ joins'[j].status = "resolved"
                    /\ joins'[j].result = IF joins[j].form = "void" THEN Undefined
                                          ELSE Boolean(TRUE)]_vars

\* C7's case: one destructor run has released a join() and a timed join.
C7_Witness ==
    \E j1, j2 \in DOMAIN joins :
        /\ joins[j1].form = "void" /\ joins[j1].status = "resolved"
        /\ joins[j1].result = Undefined
        /\ joins[j2].form # "void" /\ joins[j2].status = "resolved"
        /\ joins[j2].result = Boolean(TRUE)
        /\ joins[j1].comm = joins[j2].comm /\ destroyed[joins[j1].comm]

\* C8: a driver invocation at which inspectReady returns an error is rejected
\* with exactly that error, and SEQUENCE, the table and what was handed to
\* sendData stay as they were.
C8_NotReadyCallRejected ==
    [][\A c \in Comms :
          (Invocation(c) /\ inspectReady(c, CallMethod) # Null) =>
            /\ calls'[Len(calls')].rejected = <<inspectReady(c, CallMethod)>>
            /\ calls'[Len(calls')].resolved = <<>>
            /\ SEQUENCE' = SEQUENCE
            /\ promises_' = promises_
            /\ outbox' = outbox]_vars

\* C8's case: a call was rejected for not being ready while another call,
\* accepted before, is pending.
C8_Witness ==
    \E k1, k2 \in DOMAIN calls :
        /\ k1 < k2 /\ Accepted(k1) /\ Pending(k1)
        /\ ~Accepted(k2)
        /\ calls[k2].rejected = <<ReadyError(CallMethod, "the connection has been closed.")>>
        /\ SEQUENCE = 1 /\ Len(outbox[calls[k2].comm]) = 1

\* C9: a join of any form at which inspectReady returns an error fails with
\* that error and registers no waiter; a failed join is never waiting on the
\* condition variable and never changes afterwards.
C9_NotReadyJoinFails ==
    [][/\ \A c \in Comms :
            (Len(joins') = Len(joins) + 1 /\ joins'[Len(joins')].comm = c
               /\ inspectReady(c, JoinMethod) # Null) =>
              /\ joins'[Len(joins')].status = "failed"
              /\ joins'[Len(joins')].result = inspectReady(c, JoinMethod)
              /\ join_cv_' = join_cv_
       /\ \A j \in DOMAIN joins :
            joins[j].status = "failed" =>
              /\ joins'[j] = joins[j]
              /\ j \notin join_cv_'[joins[j].comm]]_vars

\* C9's case: a timed join failed for not being ready, and the destructor
\* then ran and released another join.
C9_Witness ==
    \E j1, j2 \in DOMAIN joins :
        /\ j1 < j2
        /\ joins[j1].form = "ms" /\ joins[j1].status = "failed"
        /\ joins[j2].status = "resolved" /\ joins[j2].result = Boolean(TRUE)
        /\ joins[j1].comm = joins[j2].comm

\* a segment a remote call must not name
ForbiddenSegment(name) ==
    \/ Len(name) > 0 /\ name[1] = "_"
    \/ Len(name) > 0 /\ name[Len(name)] = "_"
    \/ name = S_constructor
    \/ name = S_prototype
HasForbiddenSegment(listener) ==
    \E i \in DOMAIN Split(listener) : ForbiddenSegment(Split(listener)[i])

\* dispatch d invoked no provider function and a success=false IReturn of
\* its uid was handed to sendData
RejectedUninvoked(d) ==
    /\ \A i \in DOMAIN invoked : invoked[i].dispatch # d
    /\ \E i \in DOMAIN outbox[dispatches[d].comm] :
          LET m == outbox[dispatches[d].comm][i]
          IN  m.uid = dispatches[d].uid /\ m.success = FALSE

\* C10: an IFunction whose listener has a forbidden segment is answered with
\* a success=false IReturn, no provider function is invoked for it and no
\* member named by a forbidden segment is read from the provider.
C10_ForbiddenNeverReachesProvider ==
    /\ \A d \in DOMAIN dispatches :
          HasForbiddenSegment(dispatches[d].listener) => RejectedUninvoked(d)
    /\ \A r \in reads : ~ForbiddenSegment(r[2])

\* value as _Send_return puts it in a success=false IReturn
Serialized(value) ==
    IF value.kind = "Error"
    THEN [kind |-> "record", name |-> "Error", message |-> value.message]
    ELSE value

CallOf(uid) == CHOOSE k \in DOMAIN calls : calls[k].uid = uid

\* C12: an IReturn whose uid is in the table removes that entry and no other,
\* invokes the resolve of that call with the value when success is true and
\* else its reject with the value, and leaves every other call as it was.
C12_ReturnSettlesByUid ==
    [][\A c \in Comms, invoke \in IReturns(Values) :
          (invoke.uid \in DOMAIN promises_[c] /\ ReplyData(c, invoke)) =>
            LET k == CallOf(invoke.uid)
            IN  /\ DOMAIN promises_'[c] = DOMAIN promises_[c] \ {invoke.uid}
                /\ \A u \in DOMAIN promises_'[c] : promises_'[c][u] = promises_[c][u]
                /\ calls[k].comm = c
                /\ calls'[k].resolved =
                      IF invoke.success THEN Append(calls[k].resolved, invoke.value)
                      ELSE calls[k].resolved
                /\ calls'[k].rejected =
                      IF invoke.success THEN calls[k].rejected
                      ELSE Append(calls[k].rejected, invoke.value)
                /\ \A o \in DOMAIN calls : o # k => calls'[o] = calls[o]]_vars

\* C12's case: of three calls, the last was resolved and the second rejected
\* by their IReturns while the first is still pending.
C12_Witness ==
    /\ Len(calls) = 3
    /\ Pending(1) /\ Settlements(1) = 0
    /\ calls[2].rejected = <<Value("v1")>> /\ calls[2].resolved = <<>>
    /\ calls[3].resolved = <<Value("v2")>> /\ calls[3].rejected = <<>>

\* the diagnostic of each state but OPEN
Diagnostic(s) ==
    CASE s = NONE -> "connect first."
      [] s = CONNECTING -> "it's on connecting, wait for a second."
      [] s = CLOSING -> "the connection is on closing."
      [] s = CLOSED -> "the connection has been closed."

\* a step in which join is invoked on communicator c
JoinInvocation(c) == Len(joins') = Len(joins) + 1 /\ joins'[Len(joins')].comm = c

\* C13: a connector starts in NONE; in NONE, CONNECTING, CLOSING and CLOSED
\* a driver call is rejected and a join fails with the diagnostic of the
\* state, and nothing is allocated, sent or suspended; in OPEN a driver call
\* takes the next uid and hands its IFunction to sendData, and a join
\* suspends.
C13_OnlyOpenProceeds ==
    /\ \A c \in Comms : state_[c] = NONE
    /\ [][\A c \in Comms :
            /\ Invocation(c) =>
                 LET call == calls'[Len(calls')]
                 IN  IF state_[c] = OPEN
                     THEN /\ SEQUENCE' = SEQUENCE + 1
                          /\ call.uid = SEQUENCE'
                          /\ call.rejected = <<>> /\ call.resolved = <<>>
                          /\ Len(outbox'[c]) = Len(outbox[c]) + 1
                          /\ outbox'[c][Len(outbox'[c])].uid = SEQUENCE'
                          /\ SEQUENCE' \in DOMAIN promises_'[c]
                     ELSE /\ call.rejected =
                                <<[kind |-> "Error", method |-> CallMethod,
                                   message |-> Diagnostic(state_[c])]>>
                          /\ call.resolved = <<>>
                          /\ SEQUENCE' = SEQUENCE
                          /\ outbox' = outbox
                          /\ promises_' = promises_
            /\ JoinInvocation(c) =>
                 LET join == joins'[Len(joins')]
                 IN  IF state_[c] = OPEN
                     THEN /\ join.status = "waiting"
                          /\ Len(joins') \in join_cv_'[c]
                     ELSE /\ join.status = "failed"
                          /\ join.result =
                                [kind |-> "Error", method |-> JoinMethod,
                                 message |-> Diagnostic(state_[c])]
                          /\ join_cv_' = join_cv_]_vars

\* C13's case: calls rejected in NONE and in CONNECTING around one accepted
\* in OPEN, a join suspended in OPEN and a join failed in CLOSING.
C13_Witness ==
    /\ Len(calls) = 3 /\ Len(joins) = 2
    /\ calls[1].rejected = <<ReadyError(CallMethod, "connect first.")>>
    /\ Accepted(2) /\ Pending(2)
    /\ calls[3].rejected =
          <<ReadyError(CallMethod, "it's on connecting, wait for a second.")>>
    /\ Suspended(1)
    /\ joins[2].status = "failed"
    /\ joins[2].result = ReadyError(JoinMethod, "the connection is on closing.")

\* C14: a message that carries a listener string, the empty string included,
\* is dispatched against the provider; it settles no call and removes no
\* entry of the table, whatever its uid.
C14_ListenerNeverSettles ==
    [][\A c \in Comms, invoke \in IFunctions({S_empty, S_f}) :
          ReplyData(c, invoke) =>
            /\ promises_' = promises_
            /\ calls' = calls
            /\ Len(dispatches') = Len(dispatches) + 1]_vars

\* a chain of names that reaches a function of the remote provider
Chain(names) ==
    /\ Len(names) > 0
    /\ names[1] # S_then
    /\ \A i \in 2..Len(names) : names[i] \notin {S_bind, S_call, S_apply}

\* C15: invoking, while ready, what a chain of attribute accesses on the
\* driver reached hands exactly one IFunction to sendData, with the next uid,
\* the names joined by "." in the order of access as listener and the
\* arguments in order as parameters; an attribute access by itself hands
\* nothing to sendData and allocates no uid.
C15_ChainMakesOneCall ==
    [][/\ (/\ Chain(handle.chain) /\ handle.value.kind = "proxy"
           /\ inspectReady(handle.comm, CallMethod) = Null
           /\ Invoke(<<X1, X2>>)) =>
             /\ outbox'[handle.comm] =
                  Append(outbox[handle.comm],
                         [uid |-> SEQUENCE + 1,
                          listener |-> Joined(handle.chain),
                          parameters |-> << [type |-> "number", value |-> X1],
                                            [type |-> "string", value |-> X2] >>])
             /\ SEQUENCE' = SEQUENCE + 1
             /\ DOMAIN promises_'[handle.comm] =
                  DOMAIN promises_[handle.comm] \cup {SEQUENCE + 1}
       /\ Chain(handle.chain) => handle.value.kind = "proxy"
       /\ \A name \in Names :
            Access(name, MaxDepth) =>
              /\ outbox' = outbox /\ SEQUENCE' = SEQUENCE
              /\ promises_' = promises_ /\ calls' = calls]_vars

\* C15's case: the function two accesses deep was invoked twice, and a
\* further access on it has sent nothing more.
C15_Witness ==
    /\ handle.chain = <<S_a, S_then>>
    /\ handle.value.kind = "proxy"
    /\ Len(outbox["c1"]) = 2
    /\ outbox["c1"][1].listener = <<"a", ".", "t", "h", "e", "n">>
    /\ outbox["c1"][2].listener = <<"a">>
    /\ Len(outbox["c1"][1].parameters) = 2

\* C16: an IReturn whose uid is not in the table changes nothing: not the
\* table, the calls settled or pending, the join waiters, the provider, what
\* was handed to sendData.
C16_UnknownReturnDropped ==
    [][\A c \in Local, invoke \in IReturns(OneValue) :
          (invoke.uid \notin DOMAIN promises_[c] /\ ReplyData(c, invoke)) =>
            /\ promises_' = promises_ /\ calls' = calls /\ SEQUENCE' = SEQUENCE
            /\ join_cv_' = join_cv_ /\ joins' = joins
            /\ provider_' = provider_ /\ dispatches' = dispatches
            /\ outbox' = outbox /\ state_' = state_]_vars

\* C16's case: with a call pending and a join suspended, the uid of a call
\* the destructor rejected and the uid of a call that was resolved are not
\* in the table, nor is a uid never issued.
C16_Witness ==
    \E k1, k2, k3 \in DOMAIN calls, j \in DOMAIN joins :
        /\ calls[k1].rejected = <<DefaultCloseError>> /\ Accepted(k1) /\ ~Pending(k1)
        /\ Len(calls[k2].resolved) = 1 /\ ~Pending(k2)
        /\ Pending(k3) /\ Settlements(k1) = 1 /\ Settlements(k2) = 1
        /\ Suspended(j)
        /\ 0 \notin DOMAIN promises_[calls[k3].comm]

\* the position in what was handed to sendData of the first IReturn of
\* dispatch d (0 when there is none yet)
FirstReply(d) ==
    LET dp == dispatches[d]
        at == {i \in DOMAIN outbox[dp.comm] : outbox[dp.comm][i] = dp.replies[1]}
    IN  IF dp.replies = <<>> \/ at = {} THEN 0
        ELSE CHOOSE i \in at : \A o \in at : i <= o

\* C17: the provider functions are invoked in the order in which replyData
\* got their IFunction messages, each at once (its dispatch is never waiting
\* for an earlier one to finish).
C17_InvokedInArrivalOrder ==
    /\ \A i, j \in DOMAIN invoked :
          i < j => invoked[i].dispatch < invoked[j].dispatch
    /\ \A d \in DOMAIN dispatches :
          (dispatches[d].outcome = Null \/ dispatches[d].pc = "returning"
             \/ (dispatches[d].outcome # Null /\ ~dispatches[d].outcome.threw))
          => \E i \in DOMAIN invoked : invoked[i].dispatch = d

\* C17's case: the second function was invoked, has returned and its IReturn
\* was handed to sendData while the first is still running.
C17_Witness ==
    /\ Len(invoked) = 2
    /\ dispatches[1].pc = "running"
    /\ dispatches[2].pc \in {"returning", "done"}
    /\ dispatches[1].uid # dispatches[2].uid
    /\ FirstReply(2) > 0 /\ FirstReply(1) = 0

\* C18: a call whose sendData failed has been rejected and its entry has
\* left the table.
C18_SendFailureRejects ==
    \A k \in DOMAIN calls :
        calls[k].send = "failed" =>
            /\ Len(calls[k].rejected) = 1 /\ calls[k].resolved = <<>>
            /\ ~Pending(k)

\* C19: from the moment its IFunction is handed to sendData, and while that
\* sendData has not completed, an accepted call that is not settled has its
\* continuation pair in the table under its uid; so no IReturn of its uid is
\* dropped: a call that is no longer in the table has been settled.
C19_EntryBeforeSend ==
    \A k \in DOMAIN calls :
        LET c == calls[k].comm
        IN  /\ Accepted(k) =>
                 \E i \in DOMAIN outbox[c] :
                     /\ outbox[c][i].uid = calls[k].uid
                     /\ "listener" \in DOMAIN outbox[c][i]
            /\ (calls[k].send = "pending" /\ Settlements(k) = 0) =>
                 /\ calls[k].uid \in DOMAIN promises_[c]
                 /\ promises_[c][calls[k].uid] = k
            /\ (Accepted(k) /\ ~Pending(k)) => Settlements(k) = 1

\* C19's case: an IReturn that arrived before the sendData of its call
\* completed has resolved the call.
C19_Witness ==
    \E k \in DOMAIN calls :
        /\ calls[k].send = "pending"
        /\ calls[k].resolved = <<Value("v2")>>
        /\ ~Pending(k) /\ ~destroyed[calls[k].comm]

\* C20: a dispatch hands at most one IReturn to sendData, and one with
\* success=false only when the lookup, the access checks or the provider
\* function failed, never when the provider function returned.
C20_OneReplyOfTheOutcome ==
    \A d \in DOMAIN dispatches :
        LET dp == dispatches[d]
        IN  /\ dp.sends <= 1
            /\ \A i \in DOMAIN dp.replies :
                  dp.replies[i].success = FALSE =>
                      (dp.outcome # Null /\ dp.outcome.threw)

====
